---- MODULE Spec2Model ----
(***************************************************************************)
(* Verification model of the AVITI denature & dilute calculators           *)
(* (seq_gemini.py, aviti.py, seq.py, aviti_calc.py, seq_chat.py,           *)
(* seq_chat2.py).                                                         *)
(*                                                                         *)
(* Each script is a single top-to-bottom Streamlit run: the widgets supply *)
(* the inputs, the script computes and displays.  A run is modelled as a   *)
(* state machine whose actions are the script's sections in order.         *)
(*                                                                         *)
(* Numbers.  Python floats are modelled as exact rationals <<n, d>> in      *)
(* lowest terms with d > 0; round(x, k) is round-half-even at k decimals.  *)
(* The two rounded dataframe columns are kept in fixed point: uL_to_pool in *)
(* micro-uL (6 decimals), ng_pooled in milli-ng (3 decimals).              *)
(***************************************************************************)
EXTENDS Integers, Sequences, FiniteSets, TLC

VARIABLES
    variant,               \* which script runs
    pc,                    \* position in the script
    inp,                   \* the widget values of this run
    shown,                 \* what the run has displayed so far (set of tags)
    uL_to_pool,            \* df['uL_to_pool'], micro-uL per sample
    ng_pooled,             \* df['ng_pooled'], milli-ng per sample
    pool_volume,           \* micro-uL
    expected_pooled_ngul,  \* rational ng/uL (seq.py: expected_conc)
    pooled_ngul,           \* rational ng/uL (seq.py: actual_conc)
    pool_conc_nM,          \* rational nM (aviti_calc.py, seq_chat2.py: pool_conc_nM_measured)
    phix_working_nM,       \* rational nM
    effective_loading_pM,  \* rational pM
    candidates,            \* the solver's list, in enumeration order
    best,                  \* candidates[0] after the sort, or None
    chosen_L,              \* rational uL, or None
    chosen_P,              \* rational uL, or None
    pre_denature_vol,      \* rational uL (aviti_calc.py, seq_chat2.py: pool_phix_mix_uL)
    naoh_vol,              \* rational uL (naoh_volume, naoh_vol_uL)
    tris_vol,              \* rational uL (tris_volume, neutralize_vol_uL)
    small_denature_total,  \* rational uL
    loading_buffer_to_add, \* rational uL (buffer_vol_uL)
    prep_diluted_vol,      \* seq.py, rational uL
    vol_pool_needed,       \* seq.py, rational uL or NaN
    buffer_vol,            \* seq.py, rational uL or NaN
    library_nM,            \* seq.py, rational nM
    P,                     \* seq.py, the unrounded P of the last loop iteration, or NaN
    found,                 \* seq.py, BOOLEAN
    achieved_f,            \* seq.py, rational or None
    V_pool_uL,             \* aviti_calc.py, seq_chat2.py, rational uL
    V_phix_uL,             \* aviti_calc.py, seq_chat2.py, rational uL
    total_mix_uL,          \* aviti_calc.py, seq_chat2.py, rational uL
    weighted_avg_size,     \* coverage table, rational bp (seq_chat2.py: weighted_lib_size)
    mass_needed,           \* df["Mass Needed (ng)"], rational ng per library
    raw_vols,              \* df["Volume Needed (uL)"], rational uL per library
    dilution_factors,      \* df["Dilution Factor"], rational per library
    diluted_vols,          \* df["Diluted Vol (uL)"], rational uL per library
    total_mass_ng,         \* rational ng
    total_pooled_volume_uL,\* rational uL
    pool_conc_ng_uL        \* rational ng/uL (seq_chat2.py: calculated_pool_conc_ng_uL)

runVars   == <<variant, inp>>
poolVars  == <<uL_to_pool, ng_pooled, pool_volume>>
concVars  == <<expected_pooled_ngul, pooled_ngul>>
molarVars == <<pool_conc_nM, phix_working_nM>>
solveVars == <<candidates, best>>
planVars  == <<pre_denature_vol, naoh_vol, tris_vol, small_denature_total,
               loading_buffer_to_add>>
prepVars  == <<prep_diluted_vol, vol_pool_needed, buffer_vol>>
mixVars   == <<V_pool_uL, V_phix_uL, total_mix_uL>>
tableVars == <<weighted_avg_size, mass_needed, raw_vols, dilution_factors, diluted_vols>>
sumVars   == <<total_mass_ng, total_pooled_volume_uL, pool_conc_ng_uL>>

vars == <<variant, pc, inp, shown, uL_to_pool, ng_pooled, pool_volume,
          expected_pooled_ngul, pooled_ngul, pool_conc_nM, phix_working_nM,
          effective_loading_pM, candidates, best, chosen_L, chosen_P,
          pre_denature_vol, naoh_vol, tris_vol, small_denature_total,
          loading_buffer_to_add, prep_diluted_vol, vol_pool_needed, buffer_vol,
          library_nM, P, found, achieved_f, V_pool_uL, V_phix_uL, total_mix_uL,
          weighted_avg_size, mass_needed, raw_vols, dilution_factors, diluted_vols,
          total_mass_ng, total_pooled_volume_uL, pool_conc_ng_uL>>

\* Python's None, and the value of a name the run has not assigned yet
None == <<>>

\* float('nan')
NaN == <<0, 0>>

-----------------------------------------------------------------------------
(* Exact rational arithmetic standing for Python float arithmetic.         *)

Abs(x) == IF x < 0 THEN -x ELSE x

RECURSIVE GCD(_, _)
GCD(a, b) == IF b = 0 THEN a ELSE GCD(b, a % b)

\* n / d in lowest terms, d > 0
Rat(n, d) ==
    LET g == GCD(Abs(n), d) IN
    IF g = 0 THEN <<0, 1>> ELSE <<n \div g, d \div g>>

RInt(n) == <<n, 1>>

RMul(a, b) ==
    LET g1 == GCD(Abs(a[1]), b[2])
        g2 == GCD(Abs(b[1]), a[2])
    IN  IF a[1] = 0 \/ b[1] = 0 THEN <<0, 1>>
        ELSE <<(a[1] \div g1) * (b[1] \div g2), (a[2] \div g2) * (b[2] \div g1)>>

\* a / b, b # 0
RDiv(a, b) ==
    RMul(a, IF b[1] > 0 THEN <<b[2], b[1]>> ELSE <<-b[2], -b[1]>>)

RAdd(a, b) ==
    LET g == GCD(a[2], b[2]) IN
    Rat(a[1] * (b[2] \div g) + b[1] * (a[2] \div g), (a[2] \div g) * b[2])

RNeg(a) == <<-a[1], a[2]>>

RSub(a, b) == RAdd(a, RNeg(b))

RAbs(a) == <<Abs(a[1]), a[2]>>

\* sign of a - b for a, b >= 0, by comparing integer parts and then the
\* reciprocals of the fractional parts (no product is formed, so no overflow)
RECURSIVE CmpPos(_, _, _, _)
CmpPos(an, ad, bn, bd) ==
    LET qa == an \div ad
        qb == bn \div bd
        ra == an % ad
        rb == bn % bd
    IN  IF qa # qb THEN (IF qa < qb THEN -1 ELSE 1)
        ELSE IF ra = 0 THEN (IF rb = 0 THEN 0 ELSE -1)
        ELSE IF rb = 0 THEN 1
        ELSE CmpPos(bd, rb, ad, ra)

\* sign of a - b
RCmp(a, b) ==
    IF a[1] < 0 /\ b[1] >= 0 THEN -1
    ELSE IF a[1] >= 0 /\ b[1] < 0 THEN 1
    ELSE IF a[1] < 0 THEN CmpPos(-b[1], b[2], -a[1], a[2])
    ELSE CmpPos(a[1], a[2], b[1], b[2])

RLt(a, b) == RCmp(a, b) < 0
RLe(a, b) == RCmp(a, b) <= 0
RGt(a, b) == RCmp(a, b) > 0
RMax(a, b) == IF RLt(a, b) THEN b ELSE a
RMin(a, b) == IF RLt(b, a) THEN b ELSE a

\* long division: <<q, r>> with  q = floor(r0 * 10^k / d),  r the remainder
RECURSIVE LongDiv(_, _, _, _)
LongDiv(q, r, d, k) ==
    IF k = 0 THEN <<q, r>>
    ELSE LongDiv(q * 10 + ((r * 10) \div d), (r * 10) % d, d, k - 1)

\* round(a, k) for a >= 0 as an integer count of 10^-k units, ties to even
RoundPos(a, k) ==
    LET ld == LongDiv(a[1] \div a[2], a[1] % a[2], a[2], k)
        q  == ld[1]
        r2 == 2 * ld[2]
    IN  IF r2 < a[2] THEN q
        ELSE IF r2 > a[2] THEN q + 1
        ELSE IF q % 2 = 0 THEN q ELSE q + 1

Round(a, k) == IF a[1] < 0 THEN -RoundPos(RNeg(a), k) ELSE RoundPos(a, k)

-----------------------------------------------------------------------------
(* Section 2 of seq_gemini.py / aviti.py / seq.py: the pooling table.      *)

\* the rounded volume, raised to 0.000001 uL when it rounds to nothing
VolumeToPoolAtLeastOne(target_ng, conc) ==
    LET v == Round(Rat(target_ng * 100, conc), 6) IN IF v = 0 THEN 1 ELSE v

\* target_ng / conc cut off after 6 decimals, in micro-uL
VolumeToPoolFloor(target_ng, conc) ==
    LongDiv((target_ng * 100) \div conc, (target_ng * 100) % conc, conc, 6)[1]

\* round(target_ng / conc, 6) in micro-uL; conc in centi-ng/uL, target in ng
VolumeToPool(target_ng, conc) == Round(Rat(target_ng * 100, conc), 6)

\* round(conc * uL, 3) in milli-ng; the product conc * uL is in 10^-8 ng,
\* formed in two halves so that it stays inside the machine integers
MassPooled(conc, uL) ==
    LET hi  == uL \div 100000
        lo  == uL % 100000
        q   == conc * hi + ((conc * lo) \div 100000)
        r2  == 2 * ((conc * lo) % 100000)
    IN  IF r2 < 100000 THEN q
        ELSE IF r2 > 100000 THEN q + 1
        ELSE IF q % 2 = 0 THEN q ELSE q + 1

RECURSIVE SumSeq(_)
SumSeq(s) == IF s = <<>> THEN 0 ELSE Head(s) + SumSeq(Tail(s))

RECURSIVE SumRaw(_, _)
SumRaw(concs, i) ==
    IF i > Len(concs) THEN RInt(0) ELSE RAdd(Rat(100, concs[i]), SumRaw(concs, i + 1))

\* A cell of the two rounded columns is a count of micro-uL / milli-ng, >= 0
\* for the tables explored (no negative concentration is entered); the two
\* float values a zero concentration produces are kept as the cells below.
\* numpy inf: target_ng / 0 with target_ng > 0
InfCell == -1
\* numpy nan: 0 / 0, and 0 * inf
NaNCell == -2

\* one cell of df['uL_to_pool']
VolumeCell(target_ng, conc) ==
    IF conc = 0 THEN (IF target_ng = 0 THEN NaNCell ELSE InfCell)
    ELSE VolumeToPool(target_ng, conc)

\* one cell of df['ng_pooled']
MassCell(conc, uL) ==
    IF uL \in {InfCell, NaNCell} THEN NaNCell ELSE MassPooled(conc, uL)

\* Series.sum(): nan cells are skipped, an inf cell makes the sum inf
RECURSIVE ColumnSum(_)
ColumnSum(s) ==
    IF s = <<>> THEN 0
    ELSE LET rest == ColumnSum(Tail(s)) IN
         IF Head(s) = InfCell \/ rest = InfCell THEN InfCell
         ELSE IF Head(s) = NaNCell THEN rest
         ELSE Head(s) + rest

\* the mean of the concentration column
ExpectedPooledMean(masses, volume) ==
    IF volume > 0 THEN Rat(SumSeq(inp.concs), 100 * Len(inp.concs)) ELSE RInt(0)

\* the pooled concentration taken over the unrounded quotients: every sample
\* contributes target_ng of mass in target_ng / conc of volume
ExpectedPooledRaw(masses, volume) ==
    IF volume > 0 THEN RDiv(RInt(Len(inp.concs)), SumRaw(inp.concs, 1)) ELSE RInt(0)

\* expected_pooled_ngul = ng_pooled.sum() / pool_volume if pool_volume > 0 else 0.0
ExpectedPooled(masses, volume) ==
    IF volume = InfCell THEN RInt(0)
    ELSE IF volume > 0 THEN Rat(ColumnSum(masses) * 1000, volume)
    ELSE RInt(0)

\* the value the run uses for the pooled concentration: the Qubit entry when
\* it is > 0, else the expected one.  entry < 0 stands for the widget left at
\* its default, round(expected_pooled_ngul, 6); entries are micro-ng/uL.
ActualQubit(entry, expected) ==
    IF entry < 0 THEN Rat(Round(expected, 6), 1000000) ELSE Rat(entry, 1000000)

PooledNgul(actual_qubit, expected) ==
    IF actual_qubit[1] > 0 THEN actual_qubit ELSE expected

\* pool_conc_nM = pooled_ngul * 0.8 * 1e6 / 660.0 / library_size_bp
PoolConcNM(ngul, library_size_bp) ==
    RDiv(RDiv(RMul(RMul(ngul, <<4, 5>>), RInt(1000000)), RInt(660)),
         RInt(library_size_bp))

\* the working concentration with an entry of 0.0 replaced by the widget's
\* default of 0.025 nM
PhixWorkingOrDefault(i) ==
    IF i.phix_choice = "stock" THEN Rat(1, i.phix_dil_factor)
    ELSE IF i.phix_working_entry = 0 THEN Rat(25000, 1000000)
    ELSE Rat(i.phix_working_entry, 1000000)

\* phix_working_nM: 1.0 / phix_dil_factor, or the pre-diluted entry (micro-nM)
PhixWorking(i) ==
    IF i.phix_choice = "stock" THEN Rat(1, i.phix_dil_factor)
    ELSE Rat(i.phix_working_entry, 1000000)

-----------------------------------------------------------------------------
(* The dilution / aliquot solver of seq_gemini.py and aviti.py.             *)

phix_fraction == <<1, 100>>
MaxD == 50
MinL10 == 10
MaxL10 == 100
MinP == 1
MaxP == 10
MaxPreTotal == 30
PreferredL == 6
FinalVolume == 1400

\* the PhiX volume that matches the library molecule for molecule: (L * C_L) / denom
PhixVolumeEqualMolar(f, L, C_L, denom) == RDiv(RMul(L, C_L), denom)

\* P = (phix_fraction * L * C_L) / denom
PhixVolume(f, L, C_L, denom) == RDiv(RMul(RMul(f, L), C_L), denom)

\* the range test without its lower half: not (P > 10.0)
PInRangeNoLower(Pv) == ~ RGt(Pv, RInt(MaxP))

\* not (P < 1.0 or P > 10.0)
PInRange(Pv) == ~ (RLt(Pv, RInt(MinP)) \/ RGt(Pv, RInt(MaxP)))

\* not (pre_total <= 0 or pre_total > 30)
PreTotalOk(pre_total) == ~ (pre_total[1] <= 0 \/ RGt(pre_total, RInt(MaxPreTotal)))

\* the achieved concentration of the volumes as pipetted, with P rounded to
\* 2 decimals
AchievedPMPipetted(L, C_L, Pv, phix, pre_total) ==
    RMul(RDiv(RAdd(RMul(L, C_L), RMul(Rat(Round(Pv, 2), 100), phix)),
              RAdd(L, Rat(Round(Pv, 2), 100))), RInt(1000))

\* achieved_pM = (L * C_L + P * phix_working_nM) / pre_total * 1000.0
AchievedPM(L, C_L, Pv, phix, pre_total) ==
    RMul(RDiv(RAdd(RMul(L, C_L), RMul(Pv, phix)), pre_total), RInt(1000))

\* the score without the preference term: -diff
ScoreNoPreference(achieved_pM, eff, L) == RNeg(RAbs(RSub(achieved_pM, eff)))

\* score = -diff - abs(6.0 - L),  diff = abs(achieved_pM - effective_loading_pM)
Score(achieved_pM, eff, L) ==
    RSub(RNeg(RAbs(RSub(achieved_pM, eff))), RAbs(RSub(RInt(PreferredL), L)))

\* the body of the inner loop for one (d, L): <<>> when the pair is skipped
\* (`continue`), else the one-element list holding the appended tuple
\*   (score, d, round(L,2), round(P,2), round(pre_total,2), achieved_pM)
CandidateAt(C_pool, phix, eff, d, x) ==
    LET C_L   == RDiv(C_pool, RInt(d))
        L     == Rat(x, 10)
        denom == RMul(RSub(RInt(1), phix_fraction), phix)
    IN  IF denom[1] <= 0 THEN <<>>
        ELSE LET Pv == PhixVolume(phix_fraction, L, C_L, denom) IN
             IF ~ PInRange(Pv) THEN <<>>
             ELSE LET pre_total == RAdd(L, Pv) IN
                  IF ~ PreTotalOk(pre_total) THEN <<>>
                  ELSE LET achieved_pM == AchievedPM(L, C_L, Pv, phix, pre_total)
                           score == Score(achieved_pM, eff, L)
                       IN  << <<score, d, Rat(Round(L, 2), 100), Rat(Round(Pv, 2), 100),
                                Rat(Round(pre_total, 2), 100), achieved_pM>> >>

\* the inner loop with `break` in place of `continue`: the tuples appended up
\* to the first skipped grid point (a half that is shorter than its range
\* holds a skipped point)
RECURSIVE InnerLoopBreak(_, _, _, _, _, _)
InnerLoopBreak(C_pool, phix, eff, d, lo, hi) ==
    IF lo = hi THEN CandidateAt(C_pool, phix, eff, d, lo)
    ELSE LET mid  == (lo + hi) \div 2
             left == InnerLoopBreak(C_pool, phix, eff, d, lo, mid)
         IN  IF Len(left) < mid - lo + 1 THEN left
             ELSE left \o InnerLoopBreak(C_pool, phix, eff, d, mid + 1, hi)

\* for L in [x/10.0 for x in range(10,101)]: the tuples appended for the grid
\* points lo..hi, in order (the range is halved to keep the evaluation shallow)
RECURSIVE InnerLoop(_, _, _, _, _, _)
InnerLoop(C_pool, phix, eff, d, lo, hi) ==
    IF lo = hi THEN CandidateAt(C_pool, phix, eff, d, lo)
    ELSE LET mid == (lo + hi) \div 2 IN
         InnerLoop(C_pool, phix, eff, d, lo, mid)
            \o InnerLoop(C_pool, phix, eff, d, mid + 1, hi)

\* one iteration of  for d in range(1,51):
\*   C_L = pool_conc_nM / d if d > 0 else 0; if C_L <= 0: continue
DIteration(C_pool, phix, eff, d) ==
    IF RDiv(C_pool, RInt(d))[1] <= 0 THEN <<>>
    ELSE InnerLoop(C_pool, phix, eff, d, MinL10, MaxL10)

\* the tuples appended for d in lo..hi, in order
RECURSIVE OuterLoop(_, _, _, _, _)
OuterLoop(C_pool, phix, eff, lo, hi) ==
    IF lo = hi THEN DIteration(C_pool, phix, eff, lo)
    ELSE LET mid == (lo + hi) \div 2 IN
         OuterLoop(C_pool, phix, eff, lo, mid) \o OuterLoop(C_pool, phix, eff, mid + 1, hi)

\* an order that compares the scores only, so that the first of equal scores
\* stays in front
TupleGtScoreOnly(a, b) == RCmp(a[1], b[1]) > 0

\* Python's tuple order on the candidate tuples: a > b
TupleGt(a, b) ==
    LET c1 == RCmp(a[1], b[1]) IN
    IF c1 # 0 THEN c1 > 0
    ELSE IF a[2] # b[2] THEN a[2] > b[2]
    ELSE LET c3 == RCmp(a[3], b[3]) IN
    IF c3 # 0 THEN c3 > 0
    ELSE LET c4 == RCmp(a[4], b[4]) IN
    IF c4 # 0 THEN c4 > 0
    ELSE LET c5 == RCmp(a[5], b[5]) IN
    IF c5 # 0 THEN c5 > 0
    ELSE RCmp(a[6], b[6]) > 0

\* candidates.sort(reverse=True); best = candidates[0]
\* Only element 0 of the sorted list is read, i.e. the greatest tuple of the
\* list; it is found here by halving the index range lo..hi.
RECURSIVE SortedFirst(_, _, _)
SortedFirst(s, lo, hi) ==
    IF lo = hi THEN s[lo]
    ELSE LET mid == (lo + hi) \div 2
             a   == SortedFirst(s, lo, mid)
             b   == SortedFirst(s, mid + 1, hi)
         IN  IF TupleGt(b, a) THEN b ELSE a

BestOf(s) == IF s = <<>> THEN None ELSE SortedFirst(s, 1, Len(s))

-----------------------------------------------------------------------------
(* Inputs of a seq_gemini.py / aviti.py run.                               *)
(*   concs              Concentration_ng_per_uL column, centi-ng/uL        *)
(*   target_ng          ng                                                 *)
(*   library_size_bp    bp                                                 *)
(*   loading_conc_pM    tenths of a pM (min_value 0.1)                     *)
(*   qubit_entry        micro-ng/uL, < 0: left at the default              *)
(*   phix_choice        "stock" (1 nM stock, diluted) or "prediluted"      *)
(*   phix_dil_factor    integer >= 1                                       *)
(*   phix_working_entry micro-nM (min_value 0.0)                           *)
(*   dilution_factor    aviti.py only: the manual 1:X, integer >= 1        *)

MaxDilInput == 3

StockPhix(f) == [phix_choice |-> "stock", phix_dil_factor |-> f, phix_working_entry |-> 0]
PredilutedPhix(e) ==
    [phix_choice |-> "prediluted", phix_dil_factor |-> 1, phix_working_entry |-> e]

SolverInputs(tables, qubits, sizes, loads, phixes, dils) ==
    { [concs |-> c, target_ng |-> 30, library_size_bp |-> b, loading_conc_pM |-> l,
       qubit_entry |-> q, phix_choice |-> p.phix_choice,
       phix_dil_factor |-> p.phix_dil_factor,
       phix_working_entry |-> p.phix_working_entry, dilution_factor |-> d] :
       c \in tables, b \in sizes, l \in loads, q \in qubits, p \in phixes, d \in dils }

\* the runs explored: a measured pool of 3.3, 0.33 or 0.0033 ng/uL at 400 bp
\* (10, 1, 0.01 nM) against a 1:40 stock, a 0.025 nM and a 0 nM working solution; the
\* Qubit box left at its default or cleared, for two pooling tables; and a
\* 3.881196 ng/uL pool at 2000 bp against a 0.02376 nM working solution
SolverRuns(dils) ==
    SolverInputs({<<300, 300>>}, {3300000, 330000, 3300}, {400}, {100},
                 {StockPhix(40), PredilutedPhix(25000), PredilutedPhix(0)}, dils)
    \cup SolverInputs({<<300, 300>>, <<200, 400, 400>>}, {-1, 0}, {400}, {100, 500},
                      {StockPhix(40)}, dils)
    \cup SolverInputs({<<300, 300>>}, {3881196}, {2000}, {100, 10000},
                      {PredilutedPhix(23760)}, dils)

InitRest ==
    /\ pc = "start"
    /\ shown = {}
    /\ uL_to_pool = <<>>
    /\ ng_pooled = <<>>
    /\ pool_volume = 0
    /\ expected_pooled_ngul = None
    /\ pooled_ngul = None
    /\ pool_conc_nM = None
    /\ phix_working_nM = None
    /\ effective_loading_pM = None
    /\ candidates = <<>>
    /\ best = None
    /\ chosen_L = None
    /\ chosen_P = None
    /\ pre_denature_vol = None
    /\ naoh_vol = None
    /\ tris_vol = None
    /\ small_denature_total = None
    /\ loading_buffer_to_add = None
    /\ prep_diluted_vol = None
    /\ vol_pool_needed = None
    /\ buffer_vol = None
    /\ library_nM = None
    /\ P = None
    /\ found = FALSE
    /\ achieved_f = None
    /\ V_pool_uL = None
    /\ V_phix_uL = None
    /\ total_mix_uL = None
    /\ weighted_avg_size = None
    /\ mass_needed = <<>>
    /\ raw_vols = <<>>
    /\ dilution_factors = <<>>
    /\ diluted_vols = <<>>
    /\ total_mass_ng = None
    /\ total_pooled_volume_uL = None
    /\ pool_conc_ng_uL = None

InitSolver ==
    /\ \/ variant = "seq_gemini" /\ inp \in SolverRuns({1})
       \/ variant = "aviti" /\ inp \in SolverRuns(1..MaxDilInput \cup {10})
    /\ InitRest

PoolingVariants == {"seq_gemini", "aviti", "seq"}
SolverVariants == {"seq_gemini", "aviti"}

\* df['uL_to_pool'], df['ng_pooled'], pool_volume
Pooling ==
    /\ pc = "start"
    /\ variant \in PoolingVariants
    /\ LET vols == [i \in 1..Len(inp.concs) |-> VolumeCell(inp.target_ng, inp.concs[i])]
       IN  /\ uL_to_pool' = vols
           /\ ng_pooled' = [i \in 1..Len(inp.concs) |-> MassCell(inp.concs[i], vols[i])]
           /\ pool_volume' = ColumnSum(vols)
    /\ shown' = shown \cup {"pooling_plan"}
                   \cup IF variant = "seq" /\ \E i \in 1..Len(inp.concs) : inp.concs[i] <= 0
                        THEN {"warning_zero_concentration"} ELSE {}
    /\ pc' = "pooled"
    /\ UNCHANGED <<runVars, tableVars, sumVars,
                   concVars, molarVars, effective_loading_pM, solveVars,
                   chosen_L, chosen_P, planVars, prepVars, library_nM, P, found,
                   achieved_f, mixVars>>

\* effective loading, expected pooled concentration, Qubit override
ExpectedConc ==
    /\ pc = "pooled"
    /\ variant \in SolverVariants
    /\ effective_loading_pM' = RMul(<<99, 100>>, Rat(inp.loading_conc_pM, 10))
    /\ LET e == ExpectedPooled(ng_pooled, pool_volume) IN
       /\ expected_pooled_ngul' = e
       /\ pooled_ngul' = PooledNgul(ActualQubit(inp.qubit_entry, e), e)
    /\ pc' = "expected"
    /\ UNCHANGED <<runVars, tableVars, sumVars,
                   shown, poolVars, molarVars, solveVars, chosen_L, chosen_P,
                   planVars, prepVars, library_nM, P, found, achieved_f, mixVars>>

\* ng/uL -> nM and the PhiX working concentration
Convert ==
    /\ pc = "expected"
    /\ variant \in SolverVariants
    /\ pool_conc_nM' = PoolConcNM(pooled_ngul, inp.library_size_bp)
    /\ phix_working_nM' = PhixWorking(inp)
    /\ pc' = "converted"
    /\ UNCHANGED <<runVars, tableVars, sumVars,
                   shown, poolVars, concVars, effective_loading_pM, solveVars,
                   chosen_L, chosen_P, planVars, prepVars, library_nM, P, found,
                   achieved_f, mixVars>>

\* the candidate list the loops build
SolverCandidates ==
    IF variant = "seq_gemini"
    THEN OuterLoop(pool_conc_nM, phix_working_nM, effective_loading_pM, 1, MaxD)
    ELSE InnerLoop(pool_conc_nM, phix_working_nM, effective_loading_pM,
                   inp.dilution_factor, MinL10, MaxL10)

\* the search loops, the sort and best = candidates[0]
Solve ==
    /\ pc = "converted"
    /\ variant \in SolverVariants
    /\ candidates' = SolverCandidates
    /\ best' = BestOf(candidates')
    /\ pc' = "solved"
    /\ UNCHANGED <<runVars, tableVars, sumVars,
                   shown, poolVars, concVars, molarVars, effective_loading_pM,
                   chosen_L, chosen_P, planVars, prepVars, library_nM, P, found,
                   achieved_f, mixVars>>

\* if best: st.success(...), chosen_L = best_L, chosen_P = best_P; else: st.error(...)
Report ==
    /\ pc = "solved"
    /\ variant \in SolverVariants
    /\ IF best # None
       THEN /\ chosen_L' = best[3]
            /\ chosen_P' = best[4]
            /\ shown' = shown \cup {"plan_found"}
       ELSE /\ UNCHANGED <<chosen_L, chosen_P>>
            /\ shown' = shown \cup {"error_no_plan"}
    /\ pc' = "reported"
    /\ UNCHANGED <<runVars, tableVars, sumVars,
                   poolVars, concVars, molarVars, effective_loading_pM,
                   solveVars, planVars, prepVars, library_nM, P, found, achieved_f,
                   mixVars>>

\* x or 0
OrZero(x) == IF x = None THEN RInt(0) ELSE x

\* round(x, 3) as a rational
Round3(x) == Rat(Round(x, 3), 1000)

\* a top-up that subtracts the pre-denature volume only
BufferTopUpFromPre(final, small) ==
    Round3(RMax(RInt(0), RSub(final, RDiv(small, RInt(3)))))

\* loading_buffer_to_add = round(max(0.0, 1400.0 - small_denature_total), 3)
BufferTopUp(final, small) == Round3(RMax(RInt(0), RSub(final, small)))

\* naoh_vol = pre_denature_vol
NaohVolume(pre) == pre

\* twice the NaOH volume of Tris
TrisVolumeDouble(naoh) == RMul(RInt(2), naoh)

\* tris_vol = naoh_vol
TrisVolume(naoh) == naoh

\* small_denature_total = round(pre_denature_vol + naoh_vol + tris_vol, 3)
SmallDenatureTotal(pre, naoh, tris) == Round3(RAdd(RAdd(pre, naoh), tris))

\* NaOH, Tris and buffer top-up; the table / list of steps is displayed
Denature ==
    /\ pc = "reported"
    /\ variant \in SolverVariants
    /\ LET pre   == Round3(RAdd(OrZero(chosen_L), OrZero(chosen_P)))
           naoh  == NaohVolume(pre)
           tris  == TrisVolume(naoh)
           small == SmallDenatureTotal(pre, naoh, tris)
       IN  /\ pre_denature_vol' = pre
           /\ naoh_vol' = naoh
           /\ tris_vol' = tris
           /\ small_denature_total' = small
           /\ loading_buffer_to_add' = BufferTopUp(RInt(FinalVolume), small)
    /\ shown' = shown \cup {"denature_plan"}
    /\ pc' = "done"
    /\ UNCHANGED <<runVars, tableVars, sumVars,
                   poolVars, concVars, molarVars, effective_loading_pM,
                   solveVars, chosen_L, chosen_P, prepVars, library_nM, P, found,
                   achieved_f, mixVars>>

-----------------------------------------------------------------------------
(* seq.py: pooling, a 10 uL diluted aliquot, a first-fit search for L and  *)
(* P against the 1 nM PhiX stock with a clamping fallback, denaturation.   *)
(* Inputs of a seq.py run.                                                 *)
(*   concs, target_ng     as above                                         *)
(*   actual_entry         milli-ng/uL, < 0: left at the default            *)
(*   desired_entry        milli-ng/uL, < 0: left at the default            *)
(*   avg_bp               bp (min_value 1)                                 *)
(*   phix_enabled         the checkbox                                     *)
(*   phix_target_percent  tenths of a percent (0.0 .. 100.0)               *)

SeqInputs(tables, actuals, desireds, percents, enableds) ==
    { [concs |-> c, target_ng |-> 30, actual_entry |-> a, desired_entry |-> d,
       avg_bp |-> 350, phix_enabled |-> e, phix_target_percent |-> f] :
       c \in tables, a \in actuals, d \in desireds, f \in percents, e \in enableds }

\* the runs explored: the built-in table with every box left at its default,
\* for PhiX targets of 0, 1, 10 and 100 %, and at 1 % with the PhiX checkbox
\* cleared; and a two-sample table whose pool measures 3 ng/uL (or nothing),
\* diluted to 0, 3 or 9 ng/uL
SeqRuns ==
    SeqInputs({<<211, 239, 234>>}, {-1}, {-1}, {0, 10, 100, 1000}, {TRUE})
    \cup SeqInputs({<<211, 239, 234>>}, {-1}, {-1}, {10}, {FALSE})
    \cup SeqInputs({<<300, 300>>}, {-1, 0}, {-1, 0, 9000}, {10, 100}, {TRUE, FALSE})

InitSeq ==
    /\ variant = "seq"
    /\ inp \in SeqRuns
    /\ InitRest

\* st.number_input(..., value=round(default, 3), min_value=0.0)
EntryOrDefault(entry, default) == IF entry < 0 THEN Round3(default) ELSE Rat(entry, 1000)

\* desired_ng_per_ul
DesiredNgPerUl == EntryOrDefault(inp.desired_entry, pooled_ngul)

\* expected_conc, actual_conc
SeqExpected ==
    /\ pc = "pooled"
    /\ variant = "seq"
    /\ LET e == ExpectedPooled(ng_pooled, pool_volume) IN
       /\ expected_pooled_ngul' = e
       /\ pooled_ngul' = EntryOrDefault(inp.actual_entry, e)
    /\ pc' = "expected"
    /\ UNCHANGED <<runVars, tableVars, sumVars,
                   shown, poolVars, molarVars, effective_loading_pM, solveVars,
                   chosen_L, chosen_P, planVars, prepVars, library_nM, P, found,
                   achieved_f, mixVars>>

prep_diluted_target == 10

\* vol_pool_needed_for_prep
VolPoolNeededForPrep(desired, actual) ==
    IF desired[1] > 0 /\ actual[1] > 0
    THEN RDiv(RMul(RInt(prep_diluted_target), desired), actual)
    ELSE NaN

\* library_nM = desired_ng_per_ul * 1e6 / (660.0 * avg_bp), or 0.0
LibraryNM(desired, avg_bp) ==
    IF desired[1] > 0 /\ avg_bp > 0
    THEN RDiv(RMul(desired, RInt(1000000)), RInt(660 * avg_bp))
    ELSE RInt(0)

\* x > pool_volume
ExceedsPool(x) == pool_volume # InfCell /\ RGt(x, Rat(pool_volume, 1000000))

\* the diluted aliquot (prep_diluted_vol, vol_pool_needed, buffer_vol) and
\* the molar concentration of the diluted library
SeqPrep ==
    /\ pc = "expected"
    /\ variant = "seq"
    /\ LET desired == DesiredNgPerUl
           actual  == pooled_ngul
           volume  == Rat(pool_volume, 1000000)
           needed  == VolPoolNeededForPrep(desired, actual)
       IN  IF needed # NaN /\ ExceedsPool(needed) /\ pool_volume > 0
           THEN LET max_prep_diluted == RDiv(RMul(actual, volume), desired)
                    prep == Round3(RMin(RInt(prep_diluted_target), max_prep_diluted))
                    vpn  == Round3(RDiv(RMul(prep, desired), actual))
                IN  /\ prep_diluted_vol' = prep
                    /\ vol_pool_needed' = vpn
                    /\ buffer_vol' = Round3(RSub(prep, vpn))
                    /\ shown' = shown \cup {"warning_not_enough_pool"}
                                    \cup IF ExceedsPool(vpn) THEN {"error_exceeds_pool"} ELSE {}
           ELSE /\ prep_diluted_vol' = RInt(prep_diluted_target)
                /\ vol_pool_needed' = IF needed # NaN THEN Round3(needed) ELSE NaN
                /\ buffer_vol' = IF needed # NaN
                                 THEN Round3(RSub(RInt(prep_diluted_target), Round3(needed)))
                                 ELSE NaN
                /\ shown' = shown \cup IF needed # NaN /\ ExceedsPool(Round3(needed))
                                       THEN {"error_exceeds_pool"} ELSE {}
    /\ library_nM' = LibraryNM(DesiredNgPerUl, inp.avg_bp)
    /\ pc' = "prepared"
    /\ UNCHANGED <<runVars, tableVars, sumVars,
                   poolVars, concVars, molarVars, effective_loading_pM, solveVars,
                   chosen_L, chosen_P, planVars, P, found, achieved_f, mixVars>>

phix_stock_nM == 1

MinLHalf == 2
MaxLHalf == 20
MaxAliquotTotal == 10

\* f = phix_target_percent / 100.0
PhixTargetFraction == Rat(inp.phix_target_percent, 1000)

\* max_L_available = min(prep_diluted_vol, 10.0)
MaxLAvailable == RMin(prep_diluted_vol, RInt(MaxP))

\* P = (f * L * library_nM) / denom
SeqPhixVolume(f, L, lib, denom) == RDiv(RMul(RMul(f, L), lib), denom)

\* P >= 1.0 and P <= 10.0 and (L + P) <= 10.0, for a P that is a number
SeqAccepts(L, Pv) ==
    /\ RLe(RInt(MinP), Pv)
    /\ RLe(Pv, RInt(MaxP))
    /\ RLe(RAdd(L, Pv), RInt(MaxAliquotTotal))

\* a search that keeps looking after an accepted L and returns the last one
RECURSIVE PrimarySearchLastFit(_, _, _, _, _)
PrimarySearchLastFit(f, lib, maxL, x, lastP) ==
    IF x > MaxLHalf \/ RGt(Rat(x, 2), maxL)
    THEN [found |-> FALSE, L |-> None, P |-> lastP]
    ELSE LET L     == Rat(x, 2)
             denom == RMul(RInt(phix_stock_nM), RSub(RInt(1), f))
             Pv    == IF denom[1] <= 0 \/ lib[1] <= 0 THEN NaN
                      ELSE SeqPhixVolume(f, L, lib, denom)
             rest  == PrimarySearchLastFit(f, lib, maxL, x + 1, Pv)
         IN  IF rest.found THEN rest
             ELSE IF Pv # NaN /\ SeqAccepts(L, Pv)
                  THEN [found |-> TRUE, L |-> L, P |-> Pv]
                  ELSE rest

\* for L in candidate_L, from L = x * 0.5 on: the first L whose P is accepted;
\* lastP is the value the name P holds when the iteration starts
RECURSIVE PrimarySearch(_, _, _, _, _)
PrimarySearch(f, lib, maxL, x, lastP) ==
    IF x > MaxLHalf \/ RGt(Rat(x, 2), maxL)
    THEN [found |-> FALSE, L |-> None, P |-> lastP]
    ELSE LET L     == Rat(x, 2)
             denom == RMul(RInt(phix_stock_nM), RSub(RInt(1), f))
             Pv    == IF denom[1] <= 0 \/ lib[1] <= 0 THEN NaN
                      ELSE SeqPhixVolume(f, L, lib, denom)
         IN  IF Pv # NaN /\ SeqAccepts(L, Pv)
             THEN [found |-> TRUE, L |-> L, P |-> Pv]
             ELSE PrimarySearch(f, lib, maxL, x + 1, Pv)

\* the primary search loop
SeqSearch ==
    /\ pc = "prepared"
    /\ variant = "seq"
    /\ LET r == PrimarySearch(PhixTargetFraction, library_nM, MaxLAvailable, MinLHalf, None)
       IN  /\ found' = r.found
           /\ P' = r.P
           /\ chosen_L' = r.L
           /\ chosen_P' = IF r.found THEN Round3(r.P) ELSE None
    /\ pc' = "searched"
    /\ UNCHANGED <<runVars, tableVars, sumVars,
                   shown, poolVars, concVars, molarVars, effective_loading_pM,
                   solveVars, planVars, prepVars, library_nM, achieved_f, mixVars>>

\* P_raw of the fallback, or NaN
FallbackPRaw(f, L, lib) ==
    IF RGt(RSub(RInt(1), f), RInt(0)) /\ lib[1] > 0
    THEN RDiv(RMul(RMul(f, L), lib), RMul(RInt(phix_stock_nM), RSub(RInt(1), f)))
    ELSE NaN

\* P = max(1.0, min(P_raw, 10.0)); if (L + P) > 10.0: P = round(max(1.0, 10.0 - L), 3)
FallbackP(L, P_raw) ==
    LET clamped == RMax(RInt(MinP), RMin(P_raw, RInt(MaxP))) IN
    IF RGt(RAdd(L, clamped), RInt(MaxAliquotTotal))
    THEN Round3(RMax(RInt(MinP), RSub(RInt(MaxAliquotTotal), L)))
    ELSE clamped

\* achieved_f = (chosen_P * phix_stock_nM) / (chosen_L * library_nM + chosen_P * phix_stock_nM)
AchievedF(cL, cP, lib) ==
    IF lib[1] > 0
    THEN RDiv(RMul(cP, RInt(phix_stock_nM)),
              RAdd(RMul(cL, lib), RMul(cP, RInt(phix_stock_nM))))
    ELSE RInt(0)

\* if not found: the fallback
SeqFallback ==
    /\ pc = "searched"
    /\ variant = "seq"
    /\ IF found THEN UNCHANGED <<chosen_L, chosen_P, P, achieved_f>>
       ELSE LET L     == Round3(MaxLAvailable)
                P_raw == FallbackPRaw(PhixTargetFraction, L, library_nM)
            IN  IF P_raw = NaN THEN UNCHANGED <<chosen_L, chosen_P, P, achieved_f>>
                ELSE /\ P' = FallbackP(L, P_raw)
                     /\ chosen_L' = L
                     /\ chosen_P' = Round3(P')
                     /\ achieved_f' = AchievedF(chosen_L', chosen_P', library_nM)
    /\ pc' = "selected"
    /\ UNCHANGED <<runVars, tableVars, sumVars,
                   shown, poolVars, concVars, molarVars, effective_loading_pM,
                   solveVars, planVars, prepVars, library_nM, found, mixVars>>

\* Python truthiness of a float or None
Truthy(x) == x # None /\ x[1] # 0

\* the PhiX instructions and the mixing step; round(chosen_L, 3) of the
\* mixing step raises TypeError when chosen_L is None and ends the run
SeqDisplay ==
    /\ pc = "selected"
    /\ variant = "seq"
    /\ LET phix == IF ~ inp.phix_enabled THEN {"info_no_phix"}
                   ELSE IF chosen_L # None /\ chosen_P # None
                        THEN {"aliquot_plan"}
                             \cup IF achieved_f # None THEN {"note_achieved_fraction"}
                                  ELSE {"achieves_requested_fraction"}
                        ELSE {"error_no_aliquots"}
       IN  IF inp.phix_enabled /\ Truthy(chosen_L) /\ Truthy(chosen_P)
           THEN shown' = shown \cup phix \cup {"combine_step"} /\ pc' = "displayed"
           ELSE IF chosen_L = None
                THEN shown' = shown \cup phix \cup {"TypeError"} /\ pc' = "crashed"
                ELSE shown' = shown \cup phix \cup {"library_only_step"} /\ pc' = "displayed"
    /\ UNCHANGED <<runVars, tableVars, sumVars,
                   poolVars, concVars, molarVars, effective_loading_pM, solveVars,
                   chosen_L, chosen_P, planVars, prepVars, library_nM, P, found,
                   achieved_f, mixVars>>

\* NaOH, Tris and the buffer top-up to 1400 uL
SeqDenature ==
    /\ pc = "displayed"
    /\ variant = "seq"
    /\ LET pre   == IF chosen_L # None /\ chosen_P # None
                    THEN Round3(RAdd(chosen_L, chosen_P))
                    ELSE Round3(OrZero(chosen_L))
           naoh  == NaohVolume(pre)
           tris  == TrisVolume(naoh)
           small == SmallDenatureTotal(pre, naoh, tris)
       IN  /\ pre_denature_vol' = pre
           /\ naoh_vol' = naoh
           /\ tris_vol' = tris
           /\ small_denature_total' = small
           /\ loading_buffer_to_add' = BufferTopUp(RInt(FinalVolume), small)
           /\ shown' = shown \cup {"denature_plan"}
                          \cup IF RGt(small, RInt(FinalVolume))
                               THEN {"error_exceeds_final_volume"} ELSE {}
    /\ pc' = "done"
    /\ UNCHANGED <<runVars, tableVars, sumVars,
                   poolVars, concVars, molarVars, effective_loading_pM,
                   solveVars, chosen_L, chosen_P, prepVars, library_nM, P, found,
                   achieved_f, mixVars>>

-----------------------------------------------------------------------------
(* aviti_calc.py and seq_chat2.py from the pool concentration on: the pool *)
(* and PhiX volumes of the pre-denature mix, NaOH, neutralization, buffer. *)
(* The per-library table above that point only supplies the two numbers    *)
(* pool concentration and weighted library size, taken here as inputs; the *)
(* table itself is the subject of SpecTable.                               *)
(*   calculated_pool_conc  micro-ng/uL, > 0: total mass / total volume of  *)
(*                       the table (pool_conc_ng_uL,                       *)
(*                       calculated_pool_conc_ng_uL)                       *)
(*   measured_pool_conc  micro-ng/uL, > 0: the value of the measured       *)
(*                       concentration box (measured_pool_conc,            *)
(*                       measured_pool_conc_ng_uL)                         *)
(*   weighted_avg_size   bp (seq_chat2.py: weighted_lib_size)              *)
(*   loading_conc_pM     tenths of a pM (seq_chat2.py: loading_conc)       *)
(*   phiX_pct            tenths of a percent (seq_chat2.py: fixed 10.0)    *)
(*   final_volume_uL     uL (seq_chat2.py: fixed 1400.0)                   *)
(*   phix_input_type     "1 nM stock" or "Dilution factor"                 *)
(*   phix_dilution       integer >= 1 (1 for the 1 nM stock)               *)
(*   include_phix        the 'Include PhiX spike-in' checkbox; cleared, it *)
(*                       leaves seq_chat2.py with the 1 nM stock type      *)

CalcVariants == {"aviti_calc", "seq_chat2"}

StockType == [phix_input_type |-> "1 nM stock", phix_dilution |-> 1]
DilutionType(k) == [phix_input_type |-> "Dilution factor", phix_dilution |-> k]

CalcInputs(pools, loads, pcts, finals, types, switches) ==
    { [calculated_pool_conc |-> c, measured_pool_conc |-> m, weighted_avg_size |-> 400,
       loading_conc_pM |-> l, phiX_pct |-> q, final_volume_uL |-> v,
       phix_input_type |-> t.phix_input_type, phix_dilution |-> t.phix_dilution,
       include_phix |-> b] :
       c \in pools, m \in pools, l \in loads, q \in pcts, v \in finals, t \in types,
       b \in switches }

\* the runs explored: pools calculated and measured at 3.3 or 0.0066 ng/uL at
\* 400 bp (10 nM, 20 pM), loaded at 10 or 50 pM; and the 10 nM pool loaded
\* at 10 pM with the PhiX checkbox cleared
InitCalc ==
    /\ \/ /\ variant = "aviti_calc"
          /\ inp \in CalcInputs({3300000, 6600}, {100, 500}, {0, 100, 500}, {1400, 100},
                                {StockType, DilutionType(40)}, {TRUE})
                      \cup CalcInputs({3300000}, {100}, {100}, {1400},
                                      {StockType, DilutionType(40)}, {FALSE})
       \/ /\ variant = "seq_chat2"
          /\ inp \in CalcInputs({3300000, 6600}, {100, 500}, {100}, {FinalVolume},
                                {StockType, DilutionType(40)}, {TRUE})
                      \cup CalcInputs({3300000}, {100}, {100}, {FinalVolume},
                                      {StockType}, {FALSE})
    /\ InitRest

\* the concentration pool_conc_nM_measured is computed from: aviti_calc.py
\* takes the value of the measured box, seq_chat2.py the calculated value kept
\* in measured_pool_conc_ng_uL_temp (its box is read after that and not used)
PoolConcUsed(i) ==
    IF variant = "aviti_calc" THEN i.measured_pool_conc ELSE i.calculated_pool_conc

\* V_pool_uL
VPool(load, pct, final, pool_nM) ==
    RDiv(RMul(RDiv(RMul(load, RSub(RInt(100), pct)), RInt(100)), final),
         RMul(pool_nM, RInt(1000)))

\* aviti_calc.py: the divisor of V_phix_uL,
\*   1000 / phix_dilution if phix_input_type == "1 nM stock" else 1
PhixDivisorCalc(i) ==
    IF i.phix_input_type = "1 nM stock" THEN Rat(1000, i.phix_dilution) ELSE RInt(1)

\* seq_chat2.py: phix_stock_pM
PhixStockPM(i) ==
    IF i.phix_input_type = "1 nM stock" THEN Rat(1000, i.phix_dilution)
    ELSE Rat(1, i.phix_dilution)

\* V_phix_uL
VPhix(load, pct, final, divisor) ==
    RDiv(RMul(RDiv(RMul(load, pct), RInt(100)), final), divisor)

\* pool and PhiX volumes of the pre-denature mix
CalcMix ==
    /\ pc = "start"
    /\ variant \in CalcVariants
    /\ LET load    == Rat(inp.loading_conc_pM, 10)
           pct     == Rat(inp.phiX_pct, 10)
           final   == RInt(inp.final_volume_uL)
           pool_nM == PoolConcNM(Rat(PoolConcUsed(inp), 1000000), inp.weighted_avg_size)
           divisor == IF variant = "aviti_calc" THEN PhixDivisorCalc(inp) ELSE PhixStockPM(inp)
       IN  /\ pool_conc_nM' = pool_nM
           /\ V_pool_uL' = VPool(load, pct, final, pool_nM)
           /\ V_phix_uL' = VPhix(load, pct, final, divisor)
           /\ total_mix_uL' = RAdd(V_pool_uL', V_phix_uL')
    /\ shown' = shown \cup {"mixing_volumes"}
    /\ pc' = "mixed"
    /\ UNCHANGED <<runVars, tableVars, sumVars,
                   poolVars, concVars, phix_working_nM, effective_loading_pM,
                   solveVars, chosen_L, chosen_P, planVars, prepVars, library_nM, P,
                   found, achieved_f>>

\* buffer_vol_uL = final_volume_uL - (pool_phix_mix_uL + naoh_vol_uL + neutralize_vol_uL)
BufferRaw(final, mix, naoh, neutralize) == RSub(final, RAdd(RAdd(mix, naoh), neutralize))

\* NaOH, neutralization and buffer; a negative buffer is set to 0.0 with a
\* warning and the instructions are displayed all the same
CalcDenature ==
    /\ pc = "mixed"
    /\ variant \in CalcVariants
    /\ LET mix        == total_mix_uL
           naoh       == mix
           neutralize == mix
           buffer     == BufferRaw(RInt(inp.final_volume_uL), mix, naoh, neutralize)
       IN  /\ pre_denature_vol' = mix
           /\ naoh_vol' = naoh
           /\ tris_vol' = neutralize
           /\ IF RLt(buffer, RInt(0))
              THEN /\ loading_buffer_to_add' = RInt(0)
                   /\ shown' = shown \cup {"warning_buffer_negative", "instructions"}
              ELSE /\ loading_buffer_to_add' = buffer
                   /\ shown' = shown \cup {"instructions"}
    /\ pc' = "done"
    /\ UNCHANGED <<runVars, tableVars, sumVars,
                   poolVars, concVars, molarVars, effective_loading_pM,
                   solveVars, chosen_L, chosen_P, small_denature_total, prepVars,
                   library_nM, P, found, achieved_f, mixVars>>

-----------------------------------------------------------------------------
(* The pooling table on its own, over every table of up to MaxSamples      *)
(* libraries.                                                              *)

MaxSamples == 3

PoolConcs == {211, 239, 234, 300}
PoolTargets == {0, 30, 45}

PoolTables == UNION { [1..n -> PoolConcs] : n \in 1..MaxSamples }

InitPool ==
    /\ variant \in SolverVariants
    /\ inp \in { [concs |-> c, target_ng |-> t, library_size_bp |-> 400,
                  loading_conc_pM |-> 100, qubit_entry |-> -1, phix_choice |-> "stock",
                  phix_dil_factor |-> 40, phix_working_entry |-> 0,
                  dilution_factor |-> 10] : c \in PoolTables, t \in PoolTargets }
    /\ InitRest

-----------------------------------------------------------------------------
(* Runs on degenerate tables: a zero concentration among the samples, a    *)
(* target mass of 0 ng (the widget's min_value), or both.                  *)

DegenerateTables == { <<<<211, 0, 234>>, 30>>, <<<<300, 300>>, 0>>, <<<<0, 0>>, 0>> }

Degenerate(runs) ==
    { [r EXCEPT !.concs = t[1], !.target_ng = t[2]] : r \in runs, t \in DegenerateTables }

InitDegenerate ==
    /\ \/ /\ variant = "seq_gemini"
          /\ inp \in Degenerate(SolverInputs({<<300, 300>>}, {-1, 3300000}, {400}, {100},
                                             {StockPhix(40)}, {1}))
       \/ /\ variant = "aviti"
          /\ inp \in Degenerate(SolverInputs({<<300, 300>>}, {-1, 3300000}, {400}, {100},
                                             {StockPhix(40)}, {1, 10}))
       \/ /\ variant = "seq"
          /\ inp \in Degenerate(SeqInputs({<<300, 300>>}, {-1, 3000}, {-1}, {100}, {TRUE}))
    /\ InitRest

-----------------------------------------------------------------------------
(* seq_chat.py from the pool concentration on: the pool and PhiX volumes   *)
(* of the pre-denature mix and the instructions.                           *)
(*   measured_pool_conc  micro-ng/uL, >= 0: the measured concentration box *)
(*   weighted_avg_size   bp                                                *)
(*   available_pool_uL   uL, the total pooled volume of the table          *)
(*   loading_conc_pM     tenths of a pM                                    *)
(*   phiX_pct            tenths of a percent (0.0 .. 50.0)                 *)
(*   final_volume_uL     uL                                                *)
(*   include_phix        the 'Include PhiX spike-in' checkbox              *)

ChatInputs(pools, loads, pcts, finals, switches) ==
    { [measured_pool_conc |-> m, weighted_avg_size |-> 400, available_pool_uL |-> 20,
       loading_conc_pM |-> l, phiX_pct |-> q, final_volume_uL |-> v, include_phix |-> b] :
       m \in pools, l \in loads, q \in pcts, v \in finals, b \in switches }

\* the runs explored: pools of 3.3, 0.0066 and 0 ng/uL at 400 bp, loaded at
\* 10 or 50 pM with 0, 10 or 50 % PhiX, in 1400 or 10 uL
InitChat ==
    /\ variant = "seq_chat"
    /\ inp \in ChatInputs({3300000, 6600, 0}, {100, 500}, {0, 100, 500}, {1400, 10},
                          {TRUE, FALSE})
    /\ InitRest

\* V_pool_uL = (loading_conc_pM * final_volume_uL) / pool_conc_pM_measured,
\* the value assigned first and replaced before it is shown
VPoolForLoading(load, final, pool_nM) ==
    RDiv(RMul(load, final), RMul(pool_nM, RInt(1000)))

\* V_phix_uL = (phiX_pct / 100.0) * total_volume_uL, or 0.0
ChatVPhix(include_phix, pct, total_volume) ==
    IF include_phix /\ RGt(pct, RInt(0))
    THEN RMul(RDiv(pct, RInt(100)), total_volume)
    ELSE RInt(0)

\* V_pool_uL = total_volume_uL - V_phix_uL
ChatVPool(total_volume, phix) == RSub(total_volume, phix)

\* pool concentration, mixing volumes, shortage warning and instructions;
\* seq_chat.py ends there, it has no NaOH, neutralization or buffer step
ChatMix ==
    /\ pc = "start"
    /\ variant = "seq_chat"
    /\ LET pool_nM == PoolConcNM(Rat(inp.measured_pool_conc, 1000000), inp.weighted_avg_size)
           total   == RInt(inp.final_volume_uL)
           phix    == ChatVPhix(inp.include_phix, Rat(inp.phiX_pct, 10), total)
           pool    == ChatVPool(total, phix)
       IN  /\ pool_conc_nM' = pool_nM
           /\ IF RLe(pool_nM, RInt(0))
              THEN /\ UNCHANGED mixVars
                   /\ shown' = shown \cup {"warning_pool_conc"}
              ELSE /\ V_pool_uL' = pool
                   /\ V_phix_uL' = phix
                   /\ total_mix_uL' = RAdd(pool, phix)
                   /\ shown' = shown \cup {"mixing_volumes", "instructions"}
                                  \cup IF RGt(pool, RInt(inp.available_pool_uL))
                                       THEN {"warning_shortage"} ELSE {}
    /\ pc' = "instructed"
    /\ UNCHANGED <<runVars, tableVars, sumVars, poolVars, concVars, phix_working_nM,
                   effective_loading_pM, solveVars, chosen_L, chosen_P, planVars, prepVars,
                   library_nM, P, found, achieved_f>>

Init == InitSolver \/ InitSeq \/ InitCalc \/ InitChat \/ InitDegenerate

Next ==
    \/ Pooling \/ ExpectedConc \/ Convert \/ Solve \/ Report \/ Denature
    \/ SeqExpected \/ SeqPrep \/ SeqSearch \/ SeqFallback \/ SeqDisplay \/ SeqDenature
    \/ CalcMix \/ CalcDenature \/ ChatMix

Spec == Init /\ [][Next]_vars

NextPool == Pooling \/ ExpectedConc

SpecPool == InitPool /\ [][NextPool]_vars

-----------------------------------------------------------------------------
(* The per-library table of aviti_calc.py, seq_chat.py and seq_chat2.py:   *)
(* read weights, fraction of the cartridge, mass and raw volume needed,    *)
(* the pipette-friendly dilution of each library, and the pool summary.    *)
(* Inputs of a table run.                                                  *)
(*   libs                the rows of the pasted TSV, each with             *)
(*       size            Library Size, bp (> 124)                          *)
(*       oligos          Unique Oligos (> 0)                               *)
(*       qubit           Qubit Quant, hundredths of a ng/uL (> 0)          *)
(*   desired_coverage    1 .. 1000                                         *)
(*   cartridge_capacity  reads                                             *)

TableVariants == {"aviti_calc", "seq_chat", "seq_chat2"}

\* the sum of a list of rationals
RECURSIVE RSum(_)
RSum(s) == IF s = <<>> THEN RInt(0) ELSE RAdd(RSum(SubSeq(s, 1, Len(s) - 1)), s[Len(s)])

\* df["Read Weight"] = df["Unique Oligos"] * desired_coverage
ReadWeight(lib, coverage) == lib.oligos * coverage

\* df["Read Fraction"] = df["Read Weight"] / df["Read Weight"].sum()
ReadFraction(libs, coverage, i) ==
    RDiv(RInt(ReadWeight(libs[i], coverage)),
         RSum([j \in 1..Len(libs) |-> RInt(ReadWeight(libs[j], coverage))]))

\* weighted_avg_size = (df["Library Size"] * df["Read Fraction"]).sum()
WeightedAvgSize(libs, coverage) ==
    RSum([i \in 1..Len(libs) |-> RMul(RInt(libs[i].size), ReadFraction(libs, coverage, i))])

\* weighted_lib_size =
\*   (df["Library Size"] * df["Mass Needed (ng)"]).sum() / df["Mass Needed (ng)"].sum()
WeightedLibSize(libs, masses) ==
    RDiv(RSum([i \in 1..Len(libs) |-> RMul(RInt(libs[i].size), masses[i])]), RSum(masses))

\* the decimals of round() on Frac of Cart (%): 3 in seq_chat2.py, else 6
FracScale == IF variant = "seq_chat2" THEN 1000 ELSE 1000000
FracDigits == IF variant = "seq_chat2" THEN 3 ELSE 6

\* df["Frac of Cart (%)"] =
\*   ((df["Unique Oligos"] * desired_coverage) / cartridge_capacity * 100).round(...)
FracOfCart(lib, coverage, capacity) ==
    Rat(Round(Rat(ReadWeight(lib, coverage), capacity \div 100), FracDigits), FracScale)

\* df["Mass Needed (ng)"] =
\*   9.8 * (250 / (df["Library Size"] - 124)) * (df["Frac of Cart (%)"] / 100)
MassNeeded(lib, frac) ==
    RMul(RMul(Rat(98, 10), Rat(250, lib.size - 124)), RDiv(frac, RInt(100)))

\* df["Volume Needed (uL)"] = df["Mass Needed (ng)"] / df["Qubit Quant (ng/uL)"]
VolumeNeeded(mass, lib) == RDiv(mass, Rat(lib.qubit, 100))

\* the loop body: d for one raw volume
DilutionFactor(raw) ==
    IF RLe(raw, RInt(0)) THEN RInt(1)
    ELSE LET d_min == RDiv(RInt(1), raw)
             d_max == RDiv(RInt(10), raw)
             d     == RMax(d_min, RInt(1))
         IN  Rat(Round(IF RGt(d, d_max) THEN d_max ELSE d, 2), 100)

\* the loop body: diluted = round(raw * d, 2) with the rounded d
DilutedVol(raw) ==
    IF RLe(raw, RInt(0)) THEN RInt(0)
    ELSE Rat(Round(RMul(raw, DilutionFactor(raw)), 2), 100)

\* the rows explored: libraries whose raw volume at coverage 40 on the 100 M
\* cartridge is 2 uL, 35 uL, 0.11 uL (a row of the built-in table), 0.2 uL
\* and 0.05 uL
TableRows ==
    { [size |-> 374, oligos |-> 250000, qubit |-> 49],
      [size |-> 224, oligos |-> 250000, qubit |-> 7],
      [size |-> 285, oligos |-> 116560, qubit |-> 625],
      [size |-> 374, oligos |-> 250000, qubit |-> 490],
      [size |-> 224, oligos |-> 25000, qubit |-> 490] }

MaxLibs == 2

Tables == UNION { [1..n -> TableRows] : n \in 1..MaxLibs }

InitTable ==
    /\ variant \in TableVariants
    /\ inp \in { [libs |-> t, desired_coverage |-> 40, cartridge_capacity |-> 100000000] :
                 t \in Tables }
    /\ InitRest

\* the columns Read Weight .. Volume Needed; aviti_calc.py and seq_chat.py
\* compute weighted_avg_size here, from the read fractions
CoverageTable ==
    /\ pc = "start"
    /\ variant \in TableVariants
    /\ LET n == Len(inp.libs)
           masses == [i \in 1..n |->
                        MassNeeded(inp.libs[i],
                                   FracOfCart(inp.libs[i], inp.desired_coverage,
                                              inp.cartridge_capacity))]
       IN  /\ mass_needed' = masses
           /\ raw_vols' = [i \in 1..n |-> VolumeNeeded(masses[i], inp.libs[i])]
    /\ weighted_avg_size' = IF variant = "seq_chat2" THEN weighted_avg_size
                            ELSE WeightedAvgSize(inp.libs, inp.desired_coverage)
    /\ pc' = "tabled"
    /\ UNCHANGED <<runVars, dilution_factors, diluted_vols, sumVars, shown, poolVars,
                   concVars, molarVars, effective_loading_pM, solveVars, chosen_L,
                   chosen_P, planVars, prepVars, library_nM, P, found, achieved_f, mixVars>>

\* for raw in raw_vols: the Dilution Factor and Diluted Vol columns
PerLibraryDilution ==
    /\ pc = "tabled"
    /\ variant \in TableVariants
    /\ dilution_factors' = [i \in 1..Len(raw_vols) |-> DilutionFactor(raw_vols[i])]
    /\ diluted_vols' = [i \in 1..Len(raw_vols) |-> DilutedVol(raw_vols[i])]
    /\ shown' = shown \cup {"input_and_calculations"}
    /\ pc' = "diluted"
    /\ UNCHANGED <<runVars, weighted_avg_size, mass_needed, raw_vols, sumVars, poolVars,
                   concVars, molarVars, effective_loading_pM, solveVars, chosen_L,
                   chosen_P, planVars, prepVars, library_nM, P, found, achieved_f, mixVars>>

\* total mass, total pooled volume and the calculated pool concentration;
\* aviti_calc.py and seq_chat.py stop at a total volume <= 0, seq_chat2.py
\* takes 0.0 for the concentration and computes weighted_lib_size from the
\* masses
PoolSummary ==
    /\ pc = "diluted"
    /\ variant \in TableVariants
    /\ total_mass_ng' = RSum(mass_needed)
    /\ total_pooled_volume_uL' = RSum(diluted_vols)
    /\ IF RGt(total_pooled_volume_uL', RInt(0))
       THEN /\ pool_conc_ng_uL' = RDiv(total_mass_ng', total_pooled_volume_uL')
            /\ shown' = shown \cup {"pool_concentration"}
       ELSE IF variant = "seq_chat2"
            THEN /\ pool_conc_ng_uL' = RInt(0)
                 /\ shown' = shown \cup {"pool_concentration"}
            ELSE /\ pool_conc_ng_uL' = pool_conc_ng_uL
                 /\ shown' = shown \cup {"error_total_volume_zero"}
    /\ weighted_avg_size' = IF variant = "seq_chat2"
                            THEN WeightedLibSize(inp.libs, mass_needed)
                            ELSE weighted_avg_size
    /\ pc' = "summed"
    /\ UNCHANGED <<runVars, mass_needed, raw_vols, dilution_factors, diluted_vols, poolVars,
                   concVars, molarVars, effective_loading_pM, solveVars, chosen_L,
                   chosen_P, planVars, prepVars, library_nM, P, found, achieved_f, mixVars>>

NextTable == CoverageTable \/ PerLibraryDilution \/ PoolSummary

SpecTable == InitTable /\ [][NextTable]_vars

-----------------------------------------------------------------------------
(* Properties of the dilution / aliquot solver (seq_gemini.py, aviti.py).  *)

PlanReported == variant \in SolverVariants /\ "plan_found" \in shown

\* C1: whenever the solver reports a plan, the reported library aliquot L and
\* the reported PhiX aliquot P both lie in 1.0 .. 10.0 uL.
C1_Pipettable ==
    PlanReported =>
        /\ RLe(RInt(MinP), chosen_L) /\ RLe(chosen_L, RInt(MaxP))
        /\ RLe(RInt(MinP), chosen_P) /\ RLe(chosen_P, RInt(MaxP))

\* a plan is reported whose PhiX aliquot sits on the lower limit, 1.0 uL
C1_Witness == PlanReported /\ pc = "done" /\ chosen_P = RInt(MinP) /\ chosen_L # RInt(MinP)

SameScore(a, b) == RCmp(a[1], b[1]) = 0

MaxScoring(c) == \A i \in 1..Len(candidates) : ~ RGt(candidates[i][1], c[1])

Solved == variant \in SolverVariants /\ pc \in {"solved", "reported", "done"}

\* C2 as stated: among the candidates with the maximum score the one
\* enumerated first is selected (the smallest d, then the smallest L).
C2_FirstFound ==
    (Solved /\ best # None) =>
        \A i \in 1..Len(candidates) :
            SameScore(candidates[i], best) =>
                \/ best[2] < candidates[i][2]
                \/ best[2] = candidates[i][2] /\ RLe(best[3], candidates[i][3])

\* C2, amended: among the candidates with the maximum score the one that is
\* greatest in the descending tuple order is selected (the largest d, then the
\* largest L).
C2_LastInTupleOrder ==
    (Solved /\ best # None) =>
        /\ MaxScoring(best)
        /\ \A i \in 1..Len(candidates) :
            SameScore(candidates[i], best) =>
                \/ candidates[i][2] < best[2]
                \/ candidates[i][2] = best[2] /\ RLe(candidates[i][3], best[3])

\* two candidates of different d share the maximum score, and the plan is reported
C2_Witness ==
    /\ PlanReported
    /\ \E i \in 1..Len(candidates) :
        SameScore(candidates[i], best) /\ candidates[i][2] # best[2]

\* the quantities of the selected tuple recomputed from the inputs of the run
SelectedCL == RDiv(pool_conc_nM, RInt(best[2]))
SelectedP ==
    RDiv(RMul(RMul(<<1, 100>>, best[3]), SelectedCL), RMul(<<99, 100>>, phix_working_nM))
SelectedAchieved ==
    RMul(RDiv(RAdd(RMul(best[3], SelectedCL), RMul(SelectedP, phix_working_nM)),
              RAdd(best[3], SelectedP)), RInt(1000))

\* C3: the selected plan has the maximum score of all surviving candidates,
\* where score = -|achieved - 0.99 * loading| - |6.0 - L| and
\* achieved = (L*C_L + P*C_phix) / (L + P) * 1000.
C3_MaxScore ==
    (Solved /\ best # None) =>
        /\ MaxScoring(best)
        /\ best[6] = SelectedAchieved
        /\ best[1] = RSub(RNeg(RAbs(RSub(best[6],
                                         RMul(<<99, 100>>, Rat(inp.loading_conc_pM, 10))))),
                          RAbs(RSub(RInt(6), best[3])))

\* a plan is selected out of candidates of several scores, away from L = 6.0
C3_Witness ==
    /\ Solved /\ best # None
    /\ best[3] # RInt(6)
    /\ \E i \in 1..Len(candidates) : RLt(candidates[i][1], best[1])

\* the pair (d, L = x/10) has C_L > 0, a defined P with 1 <= P <= 10 and L + P <= 30
FeasiblePair(d, x) ==
    LET C_L == RDiv(pool_conc_nM, RInt(d))
        L   == Rat(x, 10)
    IN  /\ C_L[1] > 0
        /\ phix_working_nM[1] > 0
        /\ LET Pv == RDiv(RMul(RMul(<<1, 100>>, L), C_L), RMul(<<99, 100>>, phix_working_nM))
           IN  /\ RLe(RInt(1), Pv) /\ RLe(Pv, RInt(10))
               /\ RLe(RAdd(L, Pv), RInt(30))

\* C5: seq_gemini.py reports a plan if and only if some pair (d in 1..50,
\* L in 1.0, 1.1 .. 10.0) is feasible; a rejected pair does not end the search.
C5_PlanIffFeasible ==
    (variant = "seq_gemini" /\ pc \in {"reported", "done"}) =>
        (("plan_found" \in shown) <=> \E d \in 1..50 : \E x \in 10..100 : FeasiblePair(d, x))

\* pool 10 nM against 0.025 nM PhiX: (d = 2, L = 6.0) is rejected, a plan is reported
C5_Witness ==
    /\ variant = "seq_gemini" /\ pc = "reported" /\ "plan_found" \in shown
    /\ pool_conc_nM = RInt(10) /\ phix_working_nM = <<1, 40>>
    /\ ~ FeasiblePair(2, 60)

\* C6 as stated: when no pair survives, the run ends without pre-denature,
\* NaOH, Tris and buffer volumes produced from the defaults.
C6_NoVolumesWithoutPlan ==
    (variant \in SolverVariants /\ pc = "done" /\ "error_no_plan" \in shown) =>
        /\ "denature_plan" \notin shown
        /\ pre_denature_vol = None /\ naoh_vol = None /\ tris_vol = None
        /\ loading_buffer_to_add = None

-----------------------------------------------------------------------------
(* Properties of the PhiX fraction.                                        *)

\* the PhiX fraction of molecules for aliquots L of a library at C_L and p of
\* PhiX at C_phix:  (p * C_phix) / (L * C_L + p * C_phix)
Fraction(L, C_L, p, C_phix) == RDiv(RMul(p, C_phix), RAdd(RMul(L, C_L), RMul(p, C_phix)))

\* f lies between the fractions at p - eps and p + eps
Brackets(f, L, C_L, p, C_phix, eps) ==
    /\ RLe(Fraction(L, C_L, RSub(p, eps), C_phix), f)
    /\ RLe(f, Fraction(L, C_L, RAdd(p, eps), C_phix))

SeqFound == variant = "seq" /\ found /\ pc \in {"searched", "selected", "displayed", "done"}

\* C4: when a plan is found on the primary path, the PhiX fraction of the
\* reported L and P equals the target f up to the rounding of P (half of
\* 0.01 uL in seq_gemini.py / aviti.py, half of 0.001 uL in seq.py), and with
\* the unrounded P it equals f exactly.
C4_PhixFraction ==
    /\ PlanReported =>
        /\ RLe(RAbs(RSub(chosen_P, SelectedP)), <<1, 200>>)
        /\ Fraction(chosen_L, SelectedCL, SelectedP, phix_working_nM) = <<1, 100>>
        /\ Brackets(<<1, 100>>, chosen_L, SelectedCL, chosen_P, phix_working_nM, <<1, 200>>)
    /\ SeqFound =>
        /\ RLe(RAbs(RSub(chosen_P, P)), <<1, 2000>>)
        /\ Fraction(chosen_L, library_nM, P, RInt(1)) = Rat(inp.phix_target_percent, 1000)
        /\ Brackets(Rat(inp.phix_target_percent, 1000), chosen_L, library_nM, chosen_P,
                    RInt(1), <<1, 2000>>)

\* a reported plan whose P was changed by the rounding
C4_Witness == PlanReported /\ chosen_P # SelectedP

-----------------------------------------------------------------------------
(* Properties of the denaturation volumes.                                 *)

Finished == pc = "done"

HasPlan ==
    \/ variant \in SolverVariants /\ "plan_found" \in shown
    \/ variant = "seq" /\ chosen_L # None /\ chosen_P # None
    \/ variant \in CalcVariants

\* the L + P of the selected plan
PlanTotal ==
    IF variant \in CalcVariants THEN RAdd(V_pool_uL, V_phix_uL) ELSE RAdd(chosen_L, chosen_P)

\* the final loading volume of the run
FinalOf == IF variant \in CalcVariants THEN RInt(inp.final_volume_uL) ELSE RInt(1400)

Tripled(x) == RMul(RInt(3), x)

\* C7: for every selected plan, NaOH volume = Tris volume = pre-denature
\* total = L + P, and the total after neutralization is three times it.
C7_Neutralization ==
    (Finished /\ HasPlan) =>
        /\ pre_denature_vol = PlanTotal
        /\ naoh_vol = pre_denature_vol
        /\ tris_vol = pre_denature_vol
        /\ variant \notin CalcVariants => small_denature_total = Tripled(pre_denature_vol)

\* a seq.py plan of the primary path has been denatured
C7_Witness == Finished /\ variant = "seq" /\ found /\ RGt(pre_denature_vol, RInt(2))

\* C8 as stated: the buffer volume is never negative, and when the volume
\* after neutralization exceeds the final volume the run stops with an error
\* rather than presenting the steps with the buffer set to zero.
C8_CapacityError ==
    Finished =>
        /\ RLe(RInt(0), loading_buffer_to_add)
        /\ RGt(Tripled(pre_denature_vol), FinalOf) =>
              /\ "instructions" \notin shown
              /\ "denature_plan" \notin shown

\* C9: whenever three times the pre-denature total fits the final volume,
\* the buffer is the difference, so that pre-denature + NaOH + Tris + buffer
\* is the final volume exactly.
C9_TopUp ==
    (Finished /\ HasPlan /\ RLe(Tripled(pre_denature_vol), FinalOf)) =>
        /\ loading_buffer_to_add = RSub(FinalOf, Tripled(pre_denature_vol))
        /\ RAdd(RAdd(RAdd(pre_denature_vol, naoh_vol), tris_vol), loading_buffer_to_add)
              = FinalOf

\* pre-denature 8 uL: NaOH 8, Tris 8, 24 after neutralization, buffer 1376
C9_Witness ==
    /\ Finished /\ variant \in SolverVariants /\ "plan_found" \in shown
    /\ pre_denature_vol = RInt(8) /\ naoh_vol = RInt(8) /\ tris_vol = RInt(8)
    /\ small_denature_total = RInt(24) /\ loading_buffer_to_add = RInt(1376)

-----------------------------------------------------------------------------
(* Properties of the pooling table.                                        *)

\* v micro-uL is target_ng / conc rounded to 6 decimals (conc in centi-ng/uL)
IsRoundedVolume(v, target_ng, conc) ==
    LET a    == v \div 1000000
        b    == v % 1000000
        rem0 == target_ng * 100 - a * conc
        diff == b * conc - rem0 * 1000000
    IN  2 * Abs(diff) <= conc

\* m milli-ng is conc * v rounded to 3 decimals
IsRoundedMass(m, conc, v) ==
    LET a    == v \div 100000
        b    == v % 100000
        m0   == m - conc * a
        diff == m0 * 100000 - conc * b
    IN  2 * Abs(diff) <= 100000

Samples == 1..Len(inp.concs)

\* C10: the expected pooled concentration is the sum of the per-sample masses
\* rounded to 3 decimals over the sum of the per-sample volumes rounded to 6
\* decimals, exactly.
C10_PoolConcentration ==
    (pc = "expected" /\ pool_volume > 0) =>
        /\ \A i \in Samples :
              /\ IsRoundedVolume(uL_to_pool[i], inp.target_ng, inp.concs[i])
              /\ IsRoundedMass(ng_pooled[i], inp.concs[i], uL_to_pool[i])
        /\ pool_volume = SumSeq(uL_to_pool)
        /\ expected_pooled_ngul = Rat(SumSeq(ng_pooled) * 1000, SumSeq(uL_to_pool))

\* a table of three libraries, one of whose volumes is not an exact quotient
C10_Witness ==
    /\ pc = "expected" /\ pool_volume > 0 /\ Len(inp.concs) = 3
    /\ \E i \in Samples :
          (uL_to_pool[i] % 1000000) * inp.concs[i]
             # (inp.target_ng * 100 - (uL_to_pool[i] \div 1000000) * inp.concs[i]) * 1000000

-----------------------------------------------------------------------------
(* Scenario A: concentrations 2.11, 2.39, 2.34 ng/uL, target mass 30 ng.   *)

ScenarioA ==
    /\ variant \in PoolingVariants
    /\ inp.concs = <<211, 239, 234>>
    /\ inp.target_ng = 30

\* C11: in Scenario A the per-sample volumes are 14.218009, 12.552301 and
\* 12.820513 uL, their sum is 39.590823 uL, every per-sample mass is 30.000 ng
\* and the total mass is 90 ng.
C11_ScenarioAVolumes ==
    (ScenarioA /\ pc # "start") =>
        /\ uL_to_pool = <<14218009, 12552301, 12820513>>
        /\ pool_volume = 39590823
        /\ ng_pooled = <<30000, 30000, 30000>>
        /\ SumSeq(ng_pooled) = 90000

\* seq.py has pooled the built-in table
C11_Witness == ScenarioA /\ variant = "seq" /\ pc = "pooled" /\ Len(uL_to_pool) = 3

\* C12 as stated: in Scenario A the pool concentration 90 / 39.590823 agrees
\* with 2.273235 ng/uL to six decimals.
C12_ScenarioAConcentration235 ==
    (ScenarioA /\ variant \in SolverVariants /\ pc = "expected") =>
        Round(expected_pooled_ngul, 6) = 2273235

\* C12, amended: in Scenario A the pool concentration is 90 / 39.590823,
\* which is 2.273254 ng/uL to six decimals.
C12_ScenarioAConcentration ==
    (ScenarioA /\ variant \in SolverVariants /\ pc = "expected") =>
        /\ expected_pooled_ngul = Rat(90000000, 39590823)
        /\ Round(expected_pooled_ngul, 6) = 2273254

\* the expected concentration of Scenario A has been computed
C12_Witness ==
    /\ ScenarioA /\ variant = "seq_gemini" /\ pc = "expected"
    /\ expected_pooled_ngul # None /\ pool_volume = 39590823

-----------------------------------------------------------------------------
(* Properties of the pooling table on degenerate inputs.                   *)

Pooled == variant \in PoolingVariants /\ pc # "start"

\* target_ng / conc >= 0.000001 (conc in centi-ng/uL)
QuotientAtLeastOneMicro(target_ng, conc) ==
    \/ target_ng * 100 > conc \div 1000000
    \/ target_ng * 100 = conc \div 1000000 /\ conc % 1000000 = 0

\* C13 as stated: for every sample with concentration > 0 and every target
\* mass >= 0 the reported volume to pool is strictly greater than 0.
C13_VolumePositive ==
    Pooled => \A i \in Samples : inp.concs[i] > 0 => uL_to_pool[i] > 0

\* C13, amended: for every sample with concentration > 0 the reported volume
\* is >= 0; it is 0 for a target mass of 0 and > 0 whenever target /
\* concentration is at least 0.000001 uL.
C13_VolumeNonNegative ==
    Pooled =>
        \A i \in Samples :
            inp.concs[i] > 0 =>
                /\ uL_to_pool[i] >= 0
                /\ inp.target_ng = 0 => uL_to_pool[i] = 0
                /\ QuotientAtLeastOneMicro(inp.target_ng, inp.concs[i]) => uL_to_pool[i] > 0

\* a table pooled for a target mass of 0 ng: every volume is 0
C13_Witness ==
    /\ Pooled /\ inp.target_ng = 0 /\ Len(uL_to_pool) = 2
    /\ inp.concs[1] > 0 /\ uL_to_pool[1] = 0

\* C14 as stated: a sample with a zero (or negative) concentration is
\* flagged, and its undefined volume does not enter the total volume as inf or nan.
C14_InvalidSampleFlagged ==
    (Pooled /\ \E i \in Samples : inp.concs[i] <= 0) =>
        /\ "warning_zero_concentration" \in shown
        /\ pool_volume \notin {InfCell, NaNCell}

\* C15 as stated: when the total pooled volume is not positive the run stops
\* there: no pool concentration and no NaOH / Tris / buffer volume is computed.
C15_DegenerateHalts ==
    (Pooled /\ pool_volume = 0) =>
        /\ expected_pooled_ngul = None
        /\ pool_conc_nM = None
        /\ pre_denature_vol = None
        /\ "denature_plan" \notin shown

-----------------------------------------------------------------------------
(* Properties of the solver on a PhiX working concentration of 0.          *)

NoUsablePhix ==
    /\ variant \in SolverVariants
    /\ inp.phix_choice = "prediluted"
    /\ inp.phix_working_entry = 0

\* C16: when the PhiX working concentration is 0, so that (1 - f) * C_phix
\* <= 0, every pair is skipped, no candidate is produced and the solver ends
\* in the infeasible outcome with no aliquot volume chosen.
C16_UndefinedPSkipped ==
    (NoUsablePhix /\ pc \in {"solved", "reported", "done"}) =>
        /\ candidates = <<>>
        /\ best = None
        /\ chosen_L = None /\ chosen_P = None
        /\ pc # "solved" => ("error_no_plan" \in shown /\ "plan_found" \notin shown)

\* the solver has ended without a plan on a 10 nM pool and 0 nM PhiX
C16_Witness ==
    /\ NoUsablePhix /\ pc = "reported" /\ "error_no_plan" \in shown
    /\ pool_conc_nM = RInt(10) /\ phix_working_nM = RInt(0)

-----------------------------------------------------------------------------
(* Properties of the measured-concentration override.                      *)

\* C17 as stated: when a measured pooled concentration m > 0 is entered, the
\* molar pool concentration behind all downstream volumes is derived from m,
\* not from the calculated concentration.
C17_MeasuredOverride ==
    /\ (variant \in SolverVariants /\ inp.qubit_entry > 0
          /\ pc \in {"converted", "solved", "reported", "done"}) =>
            pool_conc_nM = PoolConcNM(Rat(inp.qubit_entry, 1000000), inp.library_size_bp)
    /\ (variant \in CalcVariants /\ inp.measured_pool_conc # inp.calculated_pool_conc
          /\ pc \in {"mixed", "done"}) =>
            /\ pool_conc_nM = PoolConcNM(Rat(inp.measured_pool_conc, 1000000),
                                         inp.weighted_avg_size)
            /\ V_pool_uL = VPool(Rat(inp.loading_conc_pM, 10), Rat(inp.phiX_pct, 10),
                                 RInt(inp.final_volume_uL), pool_conc_nM)

-----------------------------------------------------------------------------
(* Properties of the fallback of seq.py.                                   *)

\* the fallback of seq.py has set the volumes
SeqFellBack ==
    /\ variant = "seq"
    /\ pc \in {"selected", "displayed", "done"}
    /\ ~ found
    /\ chosen_L # None

\* C18 as stated: the fallback volumes stay inside the pipetting limits:
\* L = min(prep_diluted_vol, 10), 1 <= P <= 10 and L + P <= 10.
C18_FallbackWithinLimits ==
    SeqFellBack =>
        /\ chosen_L = Round3(MaxLAvailable)
        /\ RLe(RInt(MinP), chosen_P) /\ RLe(chosen_P, RInt(MaxP))
        /\ RLe(RAdd(chosen_L, chosen_P), RInt(MaxAliquotTotal))

\* C19 as stated: once the instructions are shown for chosen volumes, the
\* achieved PhiX fraction (P*S)/(L*A + P*S) is set and reported next to the
\* requested percentage exactly when the volumes come from the fallback; for
\* volumes of the primary search no achieved fraction is set and the requested
\* fraction is stated as achieved; a fallback result never goes unlabelled.
C19_DegradedLabelled ==
    (variant = "seq" /\ pc \in {"displayed", "done"} /\ chosen_L # None /\ chosen_P # None) =>
        IF found
        THEN /\ achieved_f = None
             /\ "achieves_requested_fraction" \in shown
             /\ "note_achieved_fraction" \notin shown
        ELSE /\ achieved_f = AchievedF(chosen_L, chosen_P, library_nM)
             /\ "note_achieved_fraction" \in shown
             /\ "achieves_requested_fraction" \notin shown

-----------------------------------------------------------------------------
(* Properties of the PhiX dilution factor.                                 *)

\* C20 as stated: in every variant that accepts a PhiX stock dilution factor
\* D >= 1, the PhiX concentration behind the PhiX volume is 1.0 / D nM
\* (1000 / D pM).
C20_PhixFromDilutionFactor ==
    /\ (variant \in SolverVariants /\ inp.phix_choice = "stock" /\ phix_working_nM # None) =>
            phix_working_nM = Rat(1, inp.phix_dil_factor)
    /\ (variant \in CalcVariants /\ inp.phix_input_type = "Dilution factor"
          /\ pc \in {"mixed", "done"}) =>
            V_phix_uL = VPhix(Rat(inp.loading_conc_pM, 10), Rat(inp.phiX_pct, 10),
                              RInt(inp.final_volume_uL), Rat(1000, inp.phix_dilution))

-----------------------------------------------------------------------------
(* Properties of the primary search of seq.py.                             *)

\* P = f * L * library_nM / (1 nM * (1 - f)) for the inputs of the run
RequiredP(L) ==
    RDiv(RMul(RMul(PhixTargetFraction, L), library_nM),
         RMul(RInt(phix_stock_nM), RSub(RInt(1), PhixTargetFraction)))

\* L = x * 0.5 is available and its P satisfies 1 <= P <= 10 and L + P <= 10
GridFit(x) ==
    /\ RLe(Rat(x, 2), MaxLAvailable)
    /\ RLe(RInt(1), RequiredP(Rat(x, 2)))
    /\ RLe(RequiredP(Rat(x, 2)), RInt(10))
    /\ RLe(RAdd(Rat(x, 2), RequiredP(Rat(x, 2))), RInt(10))

\* C22: when the primary search of seq.py succeeds, the chosen L is the
\* smallest value of the grid 1.0, 1.5, ..., 10.0 not exceeding
\* min(prep_diluted_vol, 10) whose P satisfies 1 <= P <= 10 and L + P <= 10,
\* and the reported P, rounded to 3 decimals, still satisfies L + P <= 10.
C22_FirstFit ==
    SeqFound =>
        /\ \E x \in 2..20 :
              /\ chosen_L = Rat(x, 2)
              /\ GridFit(x)
              /\ \A y \in 2..(x - 1) : ~ GridFit(y)
        /\ chosen_P = Rat(Round(RequiredP(chosen_L), 3), 1000)
        /\ RLe(RAdd(chosen_L, chosen_P), RInt(10))

\* a successful search that passed over smaller grid values and stopped
\* before a larger one that fits as well
C22_Witness ==
    /\ SeqFound
    /\ pc = "done"
    /\ RGt(chosen_L, RInt(1))
    /\ \E x \in 2..20 : RGt(Rat(x, 2), chosen_L) /\ GridFit(x)

\* C23 as stated: when neither the primary search nor the fallback of seq.py
\* yields aliquots, the run shows the 'could not compute' error, raises no
\* exception, and finishes with a pre-denature volume of 0.
C23_NoAliquotsHandled ==
    (variant = "seq" /\ chosen_L = None /\ pc \in {"displayed", "crashed", "done"}) =>
        /\ pc # "crashed"
        /\ "TypeError" \notin shown
        /\ "error_no_aliquots" \in shown
        /\ pc = "done" => pre_denature_vol = RInt(0)

\* C24 as stated: in seq.py with 'Include PhiX spike-in' off, the
\* pre-denature volume shown is the library aliquot L alone, and the NaOH and
\* Tris volumes computed afterwards both equal that L.
C24_NaohWithoutPhix ==
    (variant = "seq" /\ ~ inp.phix_enabled /\ pc = "done" /\ chosen_L # None) =>
        /\ "library_only_step" \in shown
        /\ naoh_vol = Round3(chosen_L)
        /\ tris_vol = Round3(chosen_L)

-----------------------------------------------------------------------------
(* Properties of the dilution prep of seq.py.                              *)

\* C30 as stated: for every actual concentration > 0 and target
\* concentration > 0, pooled-library volume plus buffer volume equals the
\* prepared diluted volume, the buffer volume is >= 0, and after the 'not
\* enough pooled volume' adjustment the pooled-library volume required does
\* not exceed the available pooled volume.
C30_PrepRealisable ==
    (/\ variant = "seq"
     /\ pc \in {"prepared", "searched", "selected", "displayed", "crashed", "done"}
     /\ RGt(pooled_ngul, RInt(0))
     /\ RGt(DesiredNgPerUl, RInt(0))) =>
        /\ RAdd(vol_pool_needed, buffer_vol) = prep_diluted_vol
        /\ RLe(RInt(0), buffer_vol)
        /\ "warning_not_enough_pool" \in shown =>
              RLe(vol_pool_needed, Rat(pool_volume, 1000000))

-----------------------------------------------------------------------------
(* Algebraic properties of the solver's candidates.                        *)

\* 1000 * C_L * C_phix / ((1 - f) * C_phix + f * C_L) for C_L = pool_conc_nM / d
AchievedAtDilution(d) ==
    LET C_L == RDiv(pool_conc_nM, RInt(d))
        f   == Rat(1, 100)
    IN  RDiv(RMul(RInt(1000), RMul(C_L, phix_working_nM)),
             RAdd(RMul(RSub(RInt(1), f), phix_working_nM), RMul(f, C_L)))

\* C29: for a fixed dilution factor d the achieved loading concentration of
\* a candidate does not depend on L: it equals
\* 1000 * C_L * C_phix / ((1 - f) * C_phix + f * C_L), so that within one d
\* the scores differ by |6.0 - L| only.
C29_AchievedIndependentOfL ==
    (variant \in SolverVariants /\ pc \in {"solved", "reported", "done"}) =>
        \A i \in 1..Len(candidates) :
            LET c == candidates[i] IN
            /\ c[6] = AchievedAtDilution(c[2])
            /\ RAdd(c[1], RAbs(RSub(RInt(6), c[3])))
                  = RNeg(RAbs(RSub(AchievedAtDilution(c[2]), effective_loading_pM)))

\* a solved run whose list holds candidates of one d with different L
C29_Witness ==
    /\ variant \in SolverVariants
    /\ pc = "done"
    /\ \E i, j \in 1..Len(candidates) :
          /\ candidates[i][2] = candidates[j][2]
          /\ candidates[i][3] # candidates[j][3]

-----------------------------------------------------------------------------
(* Properties of the per-library table of the coverage variants.           *)

\* sum(w_i) for w_i = oligo_count_i * desired_coverage
RECURSIVE TotalWeight(_, _)
TotalWeight(libs, coverage) ==
    IF libs = <<>> THEN 0
    ELSE TotalWeight(Tail(libs), coverage) + Head(libs).oligos * coverage

\* sum(length_i * w_i) / sum(w_i), summed term by term
WeightedLengthByCoverage(libs, coverage) ==
    RSum([i \in 1..Len(libs) |->
            RMul(RInt(libs[i].size),
                 Rat(libs[i].oligos * coverage, TotalWeight(libs, coverage)))])

\* C21 as stated: in every coverage-weighted variant the fragment length used
\* for the ng/uL to nM conversion is sum(length_i * w_i) / sum(w_i) with
\* w_i = oligo_count_i * desired_coverage.
C21_CoverageWeightedLength ==
    (variant \in TableVariants /\ pc = "summed") =>
        weighted_avg_size = WeightedLengthByCoverage(inp.libs, inp.desired_coverage)

\* C25 as stated: in the coverage variants, for every library whose raw
\* required volume is > 0, the reported Diluted Vol = round(raw * d, 2) with
\* the reported 2-decimal dilution factor d lies within 1.00 .. 10.00 uL.
C25_PipetteFriendlyVolume ==
    (variant \in TableVariants /\ pc \in {"diluted", "summed"}) =>
        \A i \in 1..Len(raw_vols) :
            RGt(raw_vols[i], RInt(0)) =>
                /\ diluted_vols[i] = Rat(Round(RMul(raw_vols[i], dilution_factors[i]), 2), 100)
                /\ RLe(RInt(1), diluted_vols[i])
                /\ RLe(diluted_vols[i], RInt(10))

\* C26 as stated: in the coverage variants, for every library, whatever its
\* raw required volume, the reported Dilution Factor is at least 1.
C26_DilutionAtLeastOne ==
    (variant \in TableVariants /\ pc \in {"diluted", "summed"}) =>
        \A i \in 1..Len(dilution_factors) : RLe(RInt(1), dilution_factors[i])

-----------------------------------------------------------------------------
(* Properties of the pre-denature mix of the coverage variants.            *)

\* C27 as stated: in every coverage variant with an 'Include PhiX spike-in'
\* checkbox, when the checkbox is off the computed PhiX volume is 0 and the
\* total pre-denature mix equals the pool volume alone.
C27_PhixSwitchHonoured ==
    (/\ variant \in {"aviti_calc", "seq_chat", "seq_chat2"}
     /\ pc \in {"mixed", "done", "instructed"}
     /\ V_pool_uL # None
     /\ ~ inp.include_phix) =>
        /\ V_phix_uL = RInt(0)
        /\ total_mix_uL = V_pool_uL

\* C28 as stated: the pool volume seq_chat.py displays and writes into the
\* instructions satisfies V_pool * pool_conc_pM_measured / final_volume =
\* loading_conc_pM, for every measured pool concentration > 0.
C28_PoolVolumeReachesLoading ==
    (variant = "seq_chat" /\ pc = "instructed" /\ inp.measured_pool_conc > 0) =>
        /\ "instructions" \in shown
        /\ RDiv(RMul(V_pool_uL, RMul(pool_conc_nM, RInt(1000))), RInt(inp.final_volume_uL))
              = Rat(inp.loading_conc_pM, 10)
        /\ V_pool_uL = VPoolForLoading(Rat(inp.loading_conc_pM, 10), RInt(inp.final_volume_uL),
                                       pool_conc_nM)

====
